---- MODULE Spec2Model ----
(***************************************************************************)
(* Model of the signal validation core of the trading bot:                 *)
(*   strategy.py  TradingStrategy  (pattern detection, confidence score,   *)
(*                                  trade direction, Kelly position size)  *)
(*   backtest.py  BacktestEngine   (walk-forward backtest, reduced         *)
(*                                  simulation at a confidence threshold)  *)
(*                                                                         *)
(* Numbers.  Prices are integers (ticks).  Every intermediate real of the  *)
(* source is an exact rational <<n, d>> with d > 0 in lowest terms.  A     *)
(* value the source rounds with round(x, k) is the integer x * 10^k        *)
(* rounded half-to-even, so a confidence of 82.5 is 825, a win rate of     *)
(* 66.67 is 6667, an amount of 1.01 is 101 and a Sharpe ratio of 0.449 is  *)
(* 449.  Sequences are indexed from 0 through At, as in the source.        *)
(***************************************************************************)
EXTENDS Integers, Sequences, FiniteSets, TLC

VARIABLES candles, ret, prev, pattern_history, min_candles_required,
          results, strategy, walk, session_state

vars == <<candles, ret, prev, pattern_history, min_candles_required,
          results, strategy, walk, session_state>>

(* ------------------------------ bounds --------------------------------- *)

\* longest series handed to the backtest operations
MaxLen == 8
\* longest window of arbitrary candles handed to the confidence scorer
MaxWindow == 1
\* largest price tick of the arbitrary candles
MaxPrice == 2
\* longest window of palette candles handed to detect_pattern
MaxDetect == 5
\* the longest series given to the market analysis
MaxMarket == 21
\* the longest series of alternating runs
MaxSwing == 17
\* the longest series walked step by step
MaxWalk == 207
\* the most candles the broker holds for an asset
MaxHistory == 101
\* the most orders the broker executes in a session
MaxOrders == 1

(* --------------------------- exact arithmetic -------------------------- *)

Abs(x) == IF x < 0 THEN -x ELSE x

RECURSIVE GCD(_, _)
GCD(a, b) == IF b = 0 THEN a ELSE GCD(b, a % b)

\* the rational n/d (d # 0) in lowest terms with a positive denominator
Rat(n, d) ==
    LET g == GCD(Abs(n), Abs(d))
        s == IF d < 0 THEN -1 ELSE 1
    IN  <<(s * n) \div g, (s * d) \div g>>

RInt(k) == <<k, 1>>
RAdd(a, b) == Rat(a[1] * b[2] + b[1] * a[2], a[2] * b[2])
RSub(a, b) == Rat(a[1] * b[2] - b[1] * a[2], a[2] * b[2])
RMul(a, b) == Rat(a[1] * b[1], a[2] * b[2])
RDiv(a, b) == Rat(a[1] * b[2], a[2] * b[1])
RLess(a, b) == a[1] * b[2] < b[1] * a[2]
RLeq(a, b) == a[1] * b[2] <= b[1] * a[2]
RMin(a, b) == IF RLess(b, a) THEN b ELSE a
RMax(a, b) == IF RLess(a, b) THEN b ELSE a

\* the integer nearest to the rational a, ties to the even one
RoundHalfEven(a) ==
    LET f == a[1] \div a[2]
        r == a[1] - f * a[2]
    IN  IF 2 * r < a[2] THEN f
        ELSE IF 2 * r > a[2] THEN f + 1
        ELSE IF f % 2 = 0 THEN f ELSE f + 1

\* round(a, k) of the source, as the integer a * 10^k rounded
Round1(a) == RoundHalfEven(RMul(a, RInt(10)))
Round2(a) == RoundHalfEven(RMul(a, RInt(100)))

RECURSIVE RSum(_)
\* the sum of a sequence of rationals, taken by halves to keep the
\* evaluation shallow; rational addition is exact, so the order is free
RSum(rs) ==
    IF rs = <<>> THEN RInt(0)
    ELSE IF Len(rs) = 1 THEN rs[1]
    ELSE LET half == Len(rs) \div 2
         IN  RAdd(RSum(SubSeq(rs, 1, half)),
                  RSum(SubSeq(rs, half + 1, Len(rs))))

\* np.mean
Mean(rs) == RDiv(RSum(rs), RInt(Len(rs)))

RECURSIVE ISqrt(_)
\* floor of the square root of a natural number
ISqrt(n) ==
    IF n < 2 THEN n
    ELSE LET s == 2 * ISqrt(n \div 4)
         IN  IF (s + 1) * (s + 1) <= n THEN s + 1 ELSE s

(* ----------------------------- sequences ------------------------------- *)

At(s, i) == s[i + 1]

\* s[-n:] of the source: the last n elements for n > 0, but the whole
\* list for n = 0 and the list without its first -n elements for n < 0
TailSlice(s, n) ==
    LET start == IF n > 0 THEN (IF Len(s) > n THEN Len(s) - n ELSE 0)
                 ELSE (IF -n < Len(s) THEN -n ELSE Len(s))
    IN  SubSeq(s, start + 1, Len(s))

\* s[a:b] of the source for 0 <= a <= b
Slice(s, a, b) == SubSeq(s, a + 1, IF b < Len(s) THEN b ELSE Len(s))

(* ----------------------------- strategy.py ----------------------------- *)

\* one candle's share of the confidence, a rational in percent
candle_confidence(candle) ==
    LET body_size == Abs(candle.close - candle.open)
        wick_size == candle.high - candle.low
    IN  IF wick_size > 0
        THEN RMin(RMul(Rat(body_size, wick_size), RInt(100)), RInt(100))
        ELSE RInt(50)

RECURSIVE total_confidence(_)
total_confidence(cs) ==
    IF cs = <<>> THEN RInt(0)
    ELSE RAdd(total_confidence(Tail(cs)), candle_confidence(Head(cs)))

\* the average before the boost and the rounding
average_confidence(cs) == RDiv(total_confidence(cs), RInt(Len(cs)))

\* the boost without its cap
boosted_confidence_uncapped(avg) ==
    IF RLess(RInt(70), avg) THEN RMul(avg, Rat(11, 10)) ELSE avg

\* the boost of a good average
boosted_confidence(avg) ==
    IF RLess(RInt(70), avg) THEN RMin(RMul(avg, Rat(11, 10)), RInt(100))
    ELSE avg

\* the confidence of a window, in tenths of a percent
calculate_confidence(cs) ==
    IF cs = <<>> THEN 0
    ELSE Round1(boosted_confidence(average_confidence(cs)))

\* a doji counted as a green candle
color_doji_green(candle) ==
    IF candle.close >= candle.open THEN "green" ELSE "red"

color(candle) ==
    IF candle.close > candle.open THEN "green"
    ELSE IF candle.close < candle.open THEN "red"
    ELSE "neutral"

pattern_name(c) == IF c = "green" THEN "5_green" ELSE "5_red"

NoPattern == [detected |-> FALSE, pattern_type |-> "None", confidence |-> 0]

\* (pattern_detected, pattern_type, confidence); confidence in tenths
detect_pattern(cs) ==
    IF Len(cs) < 5 THEN NoPattern
    ELSE LET last_5_candles == TailSlice(cs, 5)
             colors == [k \in 1..Len(last_5_candles) |-> color(last_5_candles[k])]
             distinct == {colors[k] : k \in 1..Len(colors)}
         IN  IF Cardinality(distinct) = 1 /\ colors[1] # "neutral"
             THEN [detected |-> TRUE,
                   pattern_type |-> pattern_name(colors[1]),
                   confidence |-> calculate_confidence(last_5_candles)]
             ELSE NoPattern

\* the direction following the pattern instead of reversing it
get_trade_direction_following(pattern_type) ==
    IF pattern_type = "5_green" THEN "call"
    ELSE IF pattern_type = "5_red" THEN "put"
    ELSE "call"

get_trade_direction(pattern_type) ==
    IF pattern_type = "5_green" THEN "put"
    ELSE IF pattern_type = "5_red" THEN "call"
    ELSE "call"

\* balance * (risk_percentage / 100)
max_risk_amount(balance, risk_percentage) ==
    RMul(balance, RDiv(risk_percentage, RInt(100)))

\* balance * max(half Kelly fraction, 0)
kelly_amount(balance, win_rate) ==
    LET p == RDiv(win_rate, RInt(100))
        b == Rat(8, 10)
        q == RSub(RInt(1), p)
        kelly_fraction == RDiv(RSub(RMul(b, p), q), b)
        conservative_fraction == RMul(kelly_fraction, Rat(1, 2))
    IN  RMul(balance, RMax(conservative_fraction, RInt(0)))

\* the early return taken only when both arguments are non-positive
sizer_guard_both(balance, win_rate) ==
    RLeq(balance, RInt(0)) /\ RLeq(win_rate, RInt(0))

\* the test of the early return
sizer_guard(balance, win_rate) ==
    RLeq(balance, RInt(0)) \/ RLeq(win_rate, RInt(0))

\* the larger of the two amounts instead of the smaller
recommended_amount_larger(balance, win_rate, risk_percentage) ==
    RMax(kelly_amount(balance, win_rate),
         max_risk_amount(balance, risk_percentage))

\* the smaller of the Kelly amount and the risk limit
recommended_amount(balance, win_rate, risk_percentage) ==
    RMin(kelly_amount(balance, win_rate),
         max_risk_amount(balance, risk_percentage))

\* the floored amount returned without the cap at the balance
final_amount_uncapped(amount, balance) == amount

\* the last line: min(recommended_amount, balance)
final_amount(amount, balance) == RMin(amount, balance)

\* the recommended stake, an exact rational amount
get_optimal_trade_amount(balance, win_rate, risk_percentage) ==
    IF sizer_guard(balance, win_rate) THEN RInt(0)
    ELSE LET rounded == Rat(Round2(recommended_amount(balance, win_rate,
                                                      risk_percentage)), 100)
             floored == RMax(rounded, RInt(1))
         IN  final_amount(floored, balance)

\* should_trade; the win rates are in hundredths of a percent
should_trade(cs, backtest_win_rate, min_win_rate) ==
    LET d == detect_pattern(cs)
    IN  IF ~d.detected THEN FALSE
        ELSE IF backtest_win_rate < min_win_rate THEN FALSE
        ELSE IF d.confidence < 600 THEN FALSE
        ELSE TRUE

\* the insufficient-data answer with a trend
InsufficientMarketDataSideways ==
    [trend |-> "sideways", volatility |-> "unknown", strength |-> 0]

InsufficientMarketData ==
    [trend |-> "unknown", volatility |-> "unknown", strength |-> 0]

\* the mean of the last n closes: rolling(n).mean().iloc[-1]
sma(cs, n) ==
    LET last == TailSlice(cs, n)
    IN  Mean([k \in 1..Len(last) |-> RInt(last[k].close)])

\* the true range of the row at index i; row 0 has no previous close
true_range(cs, i) ==
    LET high_low == At(cs, i).high - At(cs, i).low
    IN  IF i = 0 THEN high_low
        ELSE LET high_close == Abs(At(cs, i).high - At(cs, i - 1).close)
                 low_close == Abs(At(cs, i).low - At(cs, i - 1).close)
                 m == IF high_close > low_close THEN high_close ELSE low_close
             IN  IF high_low > m THEN high_low ELSE m

\* rolling(14).mean().iloc[-1] of the true range
average_true_range(cs) ==
    Mean([k \in 1..14 |-> RInt(true_range(cs, Len(cs) - 15 + k))])

\* the trend strength without the cap at 100
trend_strength_uncapped(cs) ==
    LET last == RInt(At(cs, Len(cs) - 1).close)
        base == RInt(At(cs, Len(cs) - 20).close)
        price_change == RDiv(RSub(last, base), base)
        magnitude == IF price_change[1] < 0 THEN RSub(RInt(0), price_change)
                     ELSE price_change
    IN  RMul(magnitude, RInt(100))

\* the trend strength before rounding, measured against close.iloc[-20]
trend_strength(cs) ==
    LET last == RInt(At(cs, Len(cs) - 1).close)
        base == RInt(At(cs, Len(cs) - 20).close)
        price_change == RDiv(RSub(last, base), base)
        magnitude == IF price_change[1] < 0 THEN RSub(RInt(0), price_change)
                     ELSE price_change
    IN  RMin(RMul(magnitude, RInt(100)), RInt(100))

\* strength in tenths of a percent, atr in millionths
analyze_market_condition(cs) ==
    IF Len(cs) < 20 THEN InsufficientMarketData
    ELSE LET last_sma_5 == sma(cs, 5)
             last_sma_20 == sma(cs, 20)
             atr == average_true_range(cs)
             last_close == RInt(At(cs, Len(cs) - 1).close)
         IN  [trend |-> IF RLess(last_sma_20, last_sma_5) THEN "bullish"
                        ELSE IF RLess(last_sma_5, last_sma_20) THEN "bearish"
                        ELSE "sideways",
              volatility |->
                  IF RLess(RMul(last_close, Rat(2, 1000)), atr) THEN "high"
                  ELSE IF RLess(RMul(last_close, Rat(1, 1000)), atr) THEN "medium"
                  ELSE "low",
              strength |-> Round1(trend_strength(cs)),
              atr |-> RoundHalfEven(RMul(atr, RInt(1000000)))]

(* ----------------------------- backtest.py ----------------------------- *)

initial_balance == 10000
\* a stake of twice the amount
trade_amount_doubled == 50 + 50
trade_amount == 50
min_confidence == 600

ZeroResult ==
    [total_trades |-> 0, winning_trades |-> 0, losing_trades |-> 0,
     win_rate |-> 0, profit_loss |-> 0, max_drawdown |-> 0,
     sharpe_ratio |-> 0, details |-> <<>>]

\* the locals with a peak below the starting balance
InitialWalkLowPeak ==
    [balance |-> RInt(initial_balance), peak_balance |-> RInt(initial_balance - 1000),
     max_drawdown |-> RInt(0), trades |-> <<>>]

\* the locals of run_backtest before the walk
InitialWalk ==
    [balance |-> RInt(initial_balance), peak_balance |-> RInt(initial_balance),
     max_drawdown |-> RInt(0), trades |-> <<>>]

\* the outcome rule with a tie counted as a win
is_win_or_tie(direction, current_candle, next_candle) ==
    IF direction = "call" THEN next_candle.close >= current_candle.close
    ELSE next_candle.close <= current_candle.close

\* the outcome of a trade taken at index i
is_win(direction, current_candle, next_candle) ==
    IF direction = "call" THEN next_candle.close > current_candle.close
    ELSE next_candle.close < current_candle.close

\* the drawdown as an amount instead of a fraction of the peak
current_drawdown_amount(peak_balance, balance) == RSub(peak_balance, balance)

current_drawdown(peak_balance, balance) ==
    RDiv(RSub(peak_balance, balance), peak_balance)

\* the iteration that trades whatever the balance is
WalkStepUnguarded(test_candles, i, w) ==
    LET current_candles == Slice(test_candles, 0, i + 1)
        d == detect_pattern(TailSlice(current_candles, 5))
    IN  IF d.detected /\ d.pattern_type # "None" /\ d.confidence >= min_confidence
           /\ i < Len(test_candles) - 1
        THEN LET direction == get_trade_direction(d.pattern_type)
                 next_candle == At(test_candles, i + 1)
                 current_candle == At(test_candles, i)
                 win == is_win(direction, current_candle, next_candle)
                 payout == RMul(RInt(trade_amount), Rat(8, 10))
                 profit_loss == IF win THEN payout ELSE RInt(-trade_amount)
                 balance == RAdd(w.balance, profit_loss)
                 peak_balance == IF RLess(w.peak_balance, balance) THEN balance
                                 ELSE w.peak_balance
                 drawdown == current_drawdown(peak_balance, balance)
                 max_drawdown == IF RLess(w.max_drawdown, drawdown) THEN drawdown
                                 ELSE w.max_drawdown
                 trade_record ==
                     [timestamp |-> At(test_candles, i).timestamp,
                      pattern |-> d.pattern_type,
                      direction |-> direction,
                      amount |-> trade_amount,
                      confidence |-> d.confidence,
                      win |-> win,
                      profit_loss |-> profit_loss,
                      balance |-> balance,
                      entry_price |-> current_candle.close,
                      exit_price |-> next_candle.close]
             IN  [balance |-> balance, peak_balance |-> peak_balance,
                  max_drawdown |-> max_drawdown,
                  trades |-> Append(w.trades, trade_record)]
        ELSE w

\* one iteration of the walk of run_backtest, at index i
WalkStep(test_candles, i, w) ==
    LET current_candles == Slice(test_candles, 0, i + 1)
        d == detect_pattern(TailSlice(current_candles, 5))
    IN  IF d.detected /\ d.pattern_type # "None" /\ d.confidence >= min_confidence
           /\ RLeq(RInt(trade_amount), w.balance)
           /\ i < Len(test_candles) - 1
        THEN LET direction == get_trade_direction(d.pattern_type)
                 next_candle == At(test_candles, i + 1)
                 current_candle == At(test_candles, i)
                 win == is_win(direction, current_candle, next_candle)
                 payout == RMul(RInt(trade_amount), Rat(8, 10))
                 profit_loss == IF win THEN payout ELSE RInt(-trade_amount)
                 balance == RAdd(w.balance, profit_loss)
                 peak_balance == IF RLess(w.peak_balance, balance) THEN balance
                                 ELSE w.peak_balance
                 drawdown == current_drawdown(peak_balance, balance)
                 max_drawdown == IF RLess(w.max_drawdown, drawdown) THEN drawdown
                                 ELSE w.max_drawdown
                 trade_record ==
                     [timestamp |-> At(test_candles, i).timestamp,
                      pattern |-> d.pattern_type,
                      direction |-> direction,
                      amount |-> trade_amount,
                      confidence |-> d.confidence,
                      win |-> win,
                      profit_loss |-> profit_loss,
                      balance |-> balance,
                      entry_price |-> current_candle.close,
                      exit_price |-> next_candle.close]
             IN  [balance |-> balance, peak_balance |-> peak_balance,
                  max_drawdown |-> max_drawdown,
                  trades |-> Append(w.trades, trade_record)]
        ELSE w

RECURSIVE WalkRange(_, _, _, _)
\* the iterations lo..hi of the loop in their order, by halves; the trade
\* list only grows, so the second half always follows the first
WalkRange(test_candles, lo, hi, w) ==
    IF lo > hi THEN w
    ELSE IF lo = hi THEN WalkStep(test_candles, lo, w)
    ELSE LET mid == (lo + hi) \div 2
             first == WalkRange(test_candles, lo, mid, w)
         IN  IF Len(first.trades) >= Len(w.trades)
             THEN WalkRange(test_candles, mid + 1, hi, first)
             ELSE first

\* the walk for i in range(i, len(test_candles))
Walk(test_candles, i, w) ==
    WalkRange(test_candles, i, Len(test_candles) - 1, w)

\* the square of np.std: the mean squared deviation from the mean
Variance(rs) ==
    LET m == Mean(rs)
    IN  Mean([k \in 1..Len(rs) |-> RMul(RSub(rs[k], m), RSub(rs[k], m))])

\* round(avg / sqrt(var), 3) in thousandths, for var > 0
RoundedSharpe(avg, var) ==
    LET sq == RDiv(RMul(avg, avg), var)
        twice == ISqrt((4000000 * sq[1]) \div sq[2])
        magnitude == (twice + 1) \div 2
    IN  IF avg[1] < 0 THEN -magnitude ELSE magnitude

(* The returns are binary floating point numbers.  A loss is -1.0 and     *)
(* sums of it are exact.  A win is the double nearest to 0.8, which is    *)
(* 7205759403792794 * 2^-53; its last five bits are 26.  np.mean adds the *)
(* returns one by one (up to 7 of them; from 8 to 15 it first adds the    *)
(* first eight exactly, in pairs) and every addition rounds the sum to    *)
(* the doubles of its size, ties to even.  The operators below follow the *)
(* rounding error of the sum of k wins in units of 2^-53, which depends   *)
(* only on the last bits of the win.                                      *)
win_return_low_bits == 26

\* the spacing, in units of 2^-53, of the doubles around k * 0.8, k <= 19
SumGrid(k) ==
    IF k = 1 THEN 1 ELSE IF k = 2 THEN 2 ELSE IF k <= 4 THEN 4
    ELSE IF k <= 9 THEN 8 ELSE 16

\* the error after adding the k-th win to a sum of k - 1 wins with error e
AddWinError(k, e) ==
    LET grid == SumGrid(k)
        low == (k * win_return_low_bits + e + 32 * k) % 32
        rest == low % grid
        odd == (low \div grid) % 2 = 1
    IN  IF 2 * rest < grid THEN e - rest
        ELSE IF 2 * rest > grid THEN e + (grid - rest)
        ELSE IF odd THEN e + (grid - rest) ELSE e - rest

RECURSIVE SumWinError(_, _, _)
\* the error of the sum after the wins k + 1 .. n are added to error e
SumWinError(k, n, e) ==
    IF k >= n THEN e ELSE SumWinError(k + 1, n, AddWinError(k + 1, e))

\* np.mean of n wins minus the win itself, in units of 2^-53: the error of
\* the sum divided by n and rounded to the nearest unit, ties to even
MeanWinError(n) ==
    LET e == IF n < 8 THEN SumWinError(0, n, 0) ELSE SumWinError(8, n, 0)
        size == Abs(e)
        quotient == size \div n
        rest == size % n
        nearest == IF 2 * rest < n THEN quotient
                   ELSE IF 2 * rest > n THEN quotient + 1
                   ELSE IF quotient % 2 = 1 THEN quotient + 1 ELSE quotient
    IN  IF e < 0 THEN -nearest ELSE nearest

\* a Sharpe ratio of the order of 10^15, which is what a mean of about 0.8
\* over a deviation of one or two units of 2^-53 gives; it is beyond the
\* integers of the checker and stands for any such value
SharpeBeyondRange == 2147483647

sharpe_ratio(trades) ==
    IF trades = <<>> THEN 0
    ELSE LET returns == [k \in 1..Len(trades) |->
                            RDiv(trades[k].profit_loss, RInt(trades[k].amount))]
             var == Variance(returns)
         IN  IF var[1] > 0 THEN RoundedSharpe(Mean(returns), var)
             ELSE IF trades[1].win /\ MeanWinError(Len(trades)) # 0
             THEN SharpeBeyondRange
             ELSE 0

win_rate_of(wins, total) ==
    IF total > 0 THEN Round2(RMul(Rat(wins, total), RInt(100))) ELSE 0

\* the statistics keeping the first ten trades instead of the last ten
StatisticsFirstTen(w) ==
    LET total_trades == Len(w.trades)
        winning_trades == Cardinality({k \in 1..Len(w.trades) : w.trades[k].win})
        losing_trades == total_trades - winning_trades
        total_profit_loss == RSub(w.balance, RInt(initial_balance))
    IN  [total_trades |-> total_trades,
         winning_trades |-> winning_trades,
         losing_trades |-> losing_trades,
         win_rate |-> win_rate_of(winning_trades, total_trades),
         profit_loss |-> Round2(total_profit_loss),
         max_drawdown |-> Round2(RMul(w.max_drawdown, RInt(100))),
         sharpe_ratio |-> sharpe_ratio(w.trades),
         final_balance |-> Round2(w.balance),
         details |-> Slice(w.trades, 0, 10)]

\* the statistics of run_backtest after the walk
Statistics(w) ==
    LET total_trades == Len(w.trades)
        winning_trades == Cardinality({k \in 1..Len(w.trades) : w.trades[k].win})
        losing_trades == total_trades - winning_trades
        total_profit_loss == RSub(w.balance, RInt(initial_balance))
    IN  [total_trades |-> total_trades,
         winning_trades |-> winning_trades,
         losing_trades |-> losing_trades,
         win_rate |-> win_rate_of(winning_trades, total_trades),
         profit_loss |-> Round2(total_profit_loss),
         max_drawdown |-> Round2(RMul(w.max_drawdown, RInt(100))),
         sharpe_ratio |-> sharpe_ratio(w.trades),
         final_balance |-> Round2(w.balance),
         details |-> TailSlice(w.trades, 10)]

\* the insufficient-data test off by one
run_backtest_short_by_one(cs, lookback_period) ==
    IF Len(cs) < lookback_period - 1 THEN ZeroResult
    ELSE Statistics(Walk(TailSlice(cs, lookback_period), 5, InitialWalk))

run_backtest(cs, lookback_period) ==
    IF Len(cs) < lookback_period THEN ZeroResult
    ELSE Statistics(Walk(TailSlice(cs, lookback_period), 5, InitialWalk))

\* the gate admitting the signals at or below the threshold
ConfidenceStepBelow(cs, i, confidence_threshold, c) ==
    LET d == detect_pattern(TailSlice(Slice(cs, 0, i + 1), 5))
    IN  IF d.detected /\ d.pattern_type # "None"
           /\ d.confidence <= confidence_threshold
        THEN LET direction == get_trade_direction(d.pattern_type)
                 win == is_win(direction, At(cs, i), At(cs, i + 1))
             IN  <<c[1] + 1, IF win THEN c[2] + 1 ELSE c[2]>>
        ELSE c

\* one iteration of the loop of _backtest_with_confidence; c is the pair
\* <<trades_count, wins>>, the threshold is in tenths of a percent
ConfidenceStep(cs, i, confidence_threshold, c) ==
    LET d == detect_pattern(TailSlice(Slice(cs, 0, i + 1), 5))
    IN  IF d.detected /\ d.pattern_type # "None"
           /\ d.confidence >= confidence_threshold
        THEN LET direction == get_trade_direction(d.pattern_type)
                 win == is_win(direction, At(cs, i), At(cs, i + 1))
             IN  <<c[1] + 1, IF win THEN c[2] + 1 ELSE c[2]>>
        ELSE c

RECURSIVE ConfidenceRange(_, _, _, _, _)
\* the iterations lo .. hi - 1 of the loop, in order; the range is split
\* in halves, and the counts of the first half are computed before the
\* second half starts, to keep the evaluation shallow on long series
ConfidenceRange(cs, lo, hi, confidence_threshold, c) ==
    IF lo >= hi THEN c
    ELSE IF hi = lo + 1 THEN ConfidenceStep(cs, lo, confidence_threshold, c)
    ELSE LET mid == (lo + hi) \div 2
             first == ConfidenceRange(cs, lo, mid, confidence_threshold, c)
         IN  IF first[1] >= c[1]
             THEN ConfidenceRange(cs, mid, hi, confidence_threshold, first)
             ELSE first

\* the loop for i in range(i, len(candles) - 1)
ConfidenceWalk(cs, i, confidence_threshold, c) ==
    ConfidenceRange(cs, i, Len(cs) - 1, confidence_threshold, c)

\* the reduced simulation starting its loop one index early
backtest_with_confidence_from_four(cs, confidence_threshold) ==
    LET c == ConfidenceWalk(cs, 4, confidence_threshold, <<0, 0>>)
    IN  [total_trades |-> c[1], winning_trades |-> c[2],
         win_rate |-> win_rate_of(c[2], c[1])]

backtest_with_confidence(cs, confidence_threshold) ==
    LET c == ConfidenceWalk(cs, 5, confidence_threshold, <<0, 0>>)
    IN  [total_trades |-> c[1], winning_trades |-> c[2],
         win_rate |-> win_rate_of(c[2], c[1])]

\* the iteration that counts a loss for every signal, won or not
PerformanceStepAlwaysLoss(cs, i, stats) ==
    LET d == detect_pattern(TailSlice(Slice(cs, 0, i + 1), 5))
    IN  IF d.detected /\ d.pattern_type # "None"
           /\ d.confidence >= min_confidence
        THEN LET direction == get_trade_direction(d.pattern_type)
                 win == is_win(direction, At(cs, i), At(cs, i + 1))
                 old == stats[d.pattern_type]
             IN  [stats EXCEPT ![d.pattern_type] =
                     <<old[1] + 1,
                       IF win THEN old[2] + 1 ELSE old[2],
                       old[3] + 1>>]
        ELSE stats

\* one iteration of the loop of analyze_pattern_performance; stats maps a
\* pattern to its <<total, wins, losses>>
PerformanceStep(cs, i, stats) ==
    LET d == detect_pattern(TailSlice(Slice(cs, 0, i + 1), 5))
    IN  IF d.detected /\ d.pattern_type # "None"
           /\ d.confidence >= min_confidence
        THEN LET direction == get_trade_direction(d.pattern_type)
                 win == is_win(direction, At(cs, i), At(cs, i + 1))
                 old == stats[d.pattern_type]
             IN  [stats EXCEPT ![d.pattern_type] =
                     <<old[1] + 1,
                       IF win THEN old[2] + 1 ELSE old[2],
                       IF win THEN old[3] ELSE old[3] + 1>>]
        ELSE stats

RECURSIVE PerformanceWalk(_, _, _)
\* the loop for i in range(i, len(candles) - 1)
PerformanceWalk(cs, i, stats) ==
    IF i >= Len(cs) - 1 THEN stats
    ELSE PerformanceWalk(cs, i + 1, PerformanceStep(cs, i, stats))

analyze_pattern_performance(cs) ==
    LET stats == PerformanceWalk(cs, 5,
                     [p \in {"5_green", "5_red"} |-> <<0, 0, 0>>])
    IN  [p \in {"5_green", "5_red"} |->
            [total |-> stats[p][1], wins |-> stats[p][2],
             losses |-> stats[p][3],
             win_rate |-> win_rate_of(stats[p][2], stats[p][1])]]

\* the candidate thresholds in scan order, in tenths of a percent
confidence_thresholds == <<500, 600, 700, 800>>

\* best_params = {} of the source
NoParams == <<>>

\* one iteration of the loop of optimize_parameters
OptimizeStep(cs, confidence_threshold, best) ==
    LET modified_results == backtest_with_confidence(cs, confidence_threshold)
    IN  IF modified_results.win_rate > best.best_performance
        THEN [best_performance |-> modified_results.win_rate,
              best_params |->
                  [confidence_threshold |-> confidence_threshold,
                   expected_win_rate |-> modified_results.win_rate,
                   total_trades |-> modified_results.total_trades]]
        ELSE best

RECURSIVE OptimizeScan(_, _, _)
\* the loop over the thresholds from position k on
OptimizeScan(cs, k, best) ==
    IF k > Len(confidence_thresholds) THEN best
    ELSE OptimizeScan(cs, k + 1,
                      OptimizeStep(cs, confidence_thresholds[k], best))

optimize_parameters(cs) ==
    OptimizeScan(cs, 1, [best_performance |-> 0,
                         best_params |-> NoParams]).best_params

\* the keys of the result read by the report template, in reading order
ReportKeys ==
    <<"total_trades", "winning_trades", "losing_trades", "win_rate",
      "profit_loss", "final_balance", "max_drawdown", "sharpe_ratio">>

\* the report text as the values substituted into the template, or the
\* KeyError raised by the first key the result does not have
generate_backtest_report(r) ==
    LET missing == {k \in 1..Len(ReportKeys) : ReportKeys[k] \notin DOMAIN r}
    IN  IF missing # {}
        THEN [outcome |-> "KeyError",
              key |-> ReportKeys[CHOOSE k \in missing :
                                    \A j \in missing : k <= j]]
        ELSE [outcome |-> "report",
              total_trades |-> r.total_trades,
              winning_trades |-> r.winning_trades,
              losing_trades |-> r.losing_trades,
              win_rate |-> r.win_rate,
              profit_loss |-> r.profit_loss,
              final_balance |-> r.final_balance,
              max_drawdown |-> r.max_drawdown,
              sharpe_ratio |-> r.sharpe_ratio,
              approved |-> r.win_rate >= 6000,
              recommendation |->
                  IF r.win_rate >= 6000
                  THEN "Strategy shows positive results. Approved for live trading."
                  ELSE "Strategy does not meet minimum requirements. Consider optimization."]

(* -------------------------------- app ---------------------------------- *)

\* session_state.quotex_client before a connection
NoClient == [kind |-> "None"]
\* a QuotexClient after connect() returned True
ConnectedClient == [kind |-> "QuotexClient", connected |-> TRUE]

\* st.session_state of a new session; candles_data and strategy_stats are
\* never written and the asset is left at its default
NewSession ==
    [quotex_client |-> NoClient, connected |-> FALSE,
     trading_active |-> FALSE, trades_history |-> <<>>,
     selected_asset |-> "EURUSD_otc"]

\* the number of candles the page asks for
candle_count == 100
\* the default lookback_period of run_backtest
default_lookback_period == 100
\* the win rate the page requires of the backtest, in hundredths
approval_win_rate == 6000

\* QuotexClient.get_candles on a broker history
get_candles(client, history, count) ==
    IF ~client.connected THEN <<>> ELSE TailSlice(history, count)

\* str.upper on a direction
Upper(direction) == IF direction = "put" THEN "PUT" ELSE "CALL"

\* What the page does with the candles it fetched, the pattern d on the
\* newest of them and the win rate of their backtest: orders are the calls
\* of QuotexClient.buy, trade_record is what the history gains when the
\* broker executes the order.
Decide(ss, fetched, d, win_rate, amount, expiry_time) ==
    IF /\ Len(fetched) > 0
       /\ d.detected
       /\ win_rate >= approval_win_rate
       /\ ss.trading_active
    THEN LET direction == IF d.pattern_type = "5_green" THEN "put" ELSE "call"
         IN  [polled |-> TRUE, fetched |-> fetched,
              orders |-> <<[asset |-> ss.selected_asset, amount |-> amount,
                            direction |-> direction,
                            expiry |-> expiry_time]>>,
              trade_record |->
                  <<[asset |-> ss.selected_asset,
                     direction |-> Upper(direction), amount |-> amount,
                     pattern |-> d.pattern_type, backtest_rate |-> win_rate,
                     status |-> "executed"]>>]
    ELSE [polled |-> TRUE, fetched |-> fetched, orders |-> <<>>,
          trade_record |-> <<>>]

\* the page on the candles it fetched
Analyze(ss, fetched, amount, expiry_time) ==
    Decide(ss, fetched, detect_pattern(TailSlice(fetched, 6)),
           run_backtest(TailSlice(fetched, 100), default_lookback_period)
               .win_rate,
           amount, expiry_time)

\* one run of the page below the sidebar
Cycle(ss, history, amount, expiry_time) ==
    IF ~(ss.connected /\ ss.trading_active /\ ss.quotex_client # NoClient)
    THEN [polled |-> FALSE, fetched |-> <<>>, orders |-> <<>>,
          trade_record |-> <<>>]
    ELSE Analyze(ss, get_candles(ss.quotex_client, history, candle_count),
                 amount, expiry_time)

(* ------------------------------- inputs -------------------------------- *)

\* the TradingStrategy / BacktestEngine instances of a session
Instances == {1, 2}

Shape(o, c, h, l) == [open |-> o, close |-> c, high |-> h, low |-> l]

StrongGreen == Shape(1, 2, 2, 1)
WeakGreen == Shape(2, 3, 4, 2)
StrongRed == Shape(2, 1, 2, 1)
WeakRed == Shape(3, 2, 4, 2)
Doji == Shape(1, 1, 2, 0)
\* a rising candle whose high is below its low
InvertedGreen == Shape(1, 2, 1, 2)

BacktestPalette == {StrongGreen, WeakGreen, StrongRed}
DetectPalette == {StrongGreen, WeakGreen, StrongRed, WeakRed, Doji}
ArbitraryShapes ==
    {Shape(o, c, h, l) : o \in 0..MaxPrice, c \in 0..MaxPrice,
                         h \in 0..MaxPrice, l \in 0..MaxPrice}

\* a series of the given shapes, one candle a minute
Stamp(shapes) ==
    [k \in 1..Len(shapes) |->
        [open |-> shapes[k].open, close |-> shapes[k].close,
         high |-> shapes[k].high, low |-> shapes[k].low,
         timestamp |-> 1000 + 60 * (k - 1)]]

SeriesOver(palette, lengths) ==
    {Stamp(s) : s \in UNION {[1..n -> palette] : n \in lengths}}

\* the series that use at most two of the three backtest shapes
BacktestSeries(lengths) ==
    UNION {SeriesOver(BacktestPalette \ {x}, lengths) : x \in BacktestPalette}

\* the same series with a volume on every candle
WithVolume(cs, volume) ==
    [k \in 1..Len(cs) |->
        [open |-> cs[k].open, close |-> cs[k].close, high |-> cs[k].high,
         low |-> cs[k].low, timestamp |-> cs[k].timestamp,
         volume |-> volume]]

Volumes == {-5, 100}

\* series of well-formed and inverted candles, with a volume
MalformedSeries ==
    {WithVolume(cs, v) :
        cs \in SeriesOver({StrongGreen, InvertedGreen}, 0..MaxLen),
        v \in Volumes}

\* the first open of a trending series
MarketBase == 30

\* n candles that each move by step, with wicks of the given size
Ramp(n, step, wick) ==
    Stamp([k \in 1..n |->
        LET o == MarketBase + step * (k - 1)
            c == o + step
        IN  Shape(o, c, (IF c > o THEN c ELSE o) + wick,
                        (IF c > o THEN o ELSE c) - wick)])

MarketSeries ==
    {Ramp(n, step, wick) : n \in 0..MaxMarket, step \in {-1, 0, 1, 2},
                           wick \in {0, 1}}

RECURSIVE SwingClose(_, _)
\* the close at index i of a series that falls at index 0 and then moves
\* in runs of period candles, first up, then down, and so on
SwingClose(i, period) ==
    IF i = 0 THEN MarketBase - 1
    ELSE SwingClose(i - 1, period)
         + (IF ((i - 1) \div period) % 2 = 0 THEN 1 ELSE -1)

\* n candles without wicks, each opening at the previous close
Swing(n, period) ==
    Stamp([k \in 1..n |->
        LET c == SwingClose(k - 1, period)
            o == IF k = 1 THEN MarketBase ELSE SwingClose(k - 2, period)
        IN  Shape(o, c, IF c > o THEN c ELSE o, IF c > o THEN o ELSE c)])

SwingPeriods == {5, 6, 7}

SwingSeries == {Swing(n, period) : n \in 0..MaxSwing, period \in SwingPeriods}

\* long series that lose every trade, the series of alternating runs and
\* the trending series
WalkSeries ==
    {Ramp(n, step, 0) : n \in (MaxWalk - 1)..MaxWalk, step \in {-1, 1}}
    \cup SwingSeries \cup MarketSeries

\* backtest win rates and the default minimum, in hundredths of a percent
BacktestWinRates == {0, 5999, 6000, 10000}
default_min_win_rate == 6000

Lookbacks == -1..(MaxLen + 1)

\* the lookbacks around the length of a series
NearLookbacks(cs) == (Len(cs) - 1)..(Len(cs) + 1)

\* confidence thresholds, in tenths of a percent
Thresholds == {0, 500, 600, 700, 800, 1010}

PatternTypes == {"5_green", "5_red", "None"}

Balances == {RInt(-1), RInt(0), Rat(1, 2), RInt(1), RInt(10), Rat(503, 10),
             RInt(100), RInt(1000)}
WinRates == {RInt(-5), RInt(0), RInt(30), RInt(50), Rat(556, 10), RInt(65),
             RInt(100), RInt(120)}
RiskPercentages == {RInt(-1), RInt(0), Rat(1, 2), RInt(2), RInt(5), RInt(100),
                    RInt(150)}

\* the candles the broker holds for the asset: a flat stretch, alternating
\* runs of the given period and a last rising run of k candles
History(total, m, period, k, wick) ==
    Stamp(Ramp(total - m - k, 0, 1) \o Swing(m, period) \o Ramp(k, 1, wick))

\* no candles, a flat history, and histories of about a hundred candles
\* whose backtest wins every trade (period 5) or every other one (period 6)
AppHistories ==
    {<<>>, History(MaxHistory, 0, 5, 0, 0)} \cup
    {History(total, 11, period, k, wick) :
        total \in (MaxHistory - 2)..MaxHistory,
        period \in {5, 6}, k \in {0, 5}, wick \in {0, 1}}

\* the values of the amount and expiry widgets
TradeAmounts == {1, 10}
ExpiryTimes == {60}

(* ------------------------------- state --------------------------------- *)

NoCall == [op |-> "none"]

\* no run_backtest is in progress
Idle == [pc |-> "idle"]

\* the instances after construction; no call has been made
Constructed ==
    /\ ret = NoCall
    /\ prev = NoCall
    /\ pattern_history = [s \in Instances |-> <<>>]
    /\ min_candles_required = [s \in Instances |-> 6]
    /\ results = [e \in Instances |-> <<>>]
    /\ strategy = [e \in Instances |-> e]
    /\ walk = Idle
    /\ session_state = NewSession

Init ==
    /\ candles \in SeriesOver(BacktestPalette, 0..MaxLen)
    /\ Constructed

InitStrategy ==
    /\ candles \in SeriesOver(ArbitraryShapes, 0..MaxWindow)
                   \cup SeriesOver(DetectPalette, 0..MaxDetect)
    /\ Constructed

InitRepeat ==
    /\ candles \in BacktestSeries((MaxLen - 1)..MaxLen)
    /\ Constructed

InitMalformed ==
    /\ candles \in MalformedSeries
    /\ Constructed

InitCore ==
    /\ candles \in MarketSeries
    /\ Constructed

InitSwing ==
    /\ candles \in SwingSeries
    /\ Constructed

InitWalk ==
    /\ candles \in WalkSeries
    /\ Constructed

InitSizer ==
    /\ candles = <<>>
    /\ Constructed

\* a new browser session; no candles have been fetched
InitApp ==
    /\ candles = <<>>
    /\ Constructed

(* ------------------------------ operations ----------------------------- *)

\* the detector keeping the last pattern it returned
DetectPatternRecording(s) ==
    /\ ret = NoCall
    /\ ret' = [op |-> "detect_pattern", result |-> detect_pattern(candles)]
    /\ pattern_history' =
          [pattern_history EXCEPT ![s] = <<ret'.result.pattern_type>>]
    /\ UNCHANGED <<candles, min_candles_required, results, strategy>>

DetectPattern(s) ==
    /\ ret = NoCall
    /\ ret' = [op |-> "detect_pattern", result |-> detect_pattern(candles)]
    /\ UNCHANGED <<candles, pattern_history, min_candles_required, results,
                   strategy>>

CalculateConfidence(s) ==
    /\ ret = NoCall
    /\ ret' = [op |-> "calculate_confidence",
               result |-> calculate_confidence(candles)]
    /\ UNCHANGED <<candles, pattern_history, min_candles_required, results,
                   strategy>>

ShouldTrade(s, backtest_win_rate, min_win_rate) ==
    /\ ret = NoCall
    /\ ret' = [op |-> "should_trade", backtest_win_rate |-> backtest_win_rate,
               min_win_rate |-> min_win_rate,
               result |-> should_trade(candles, backtest_win_rate,
                                       min_win_rate)]
    /\ UNCHANGED <<candles, pattern_history, min_candles_required, results,
                   strategy>>

AnalyzeMarketCondition(s) ==
    /\ ret = NoCall
    /\ ret' = [op |-> "analyze_market_condition",
               result |-> analyze_market_condition(candles)]
    /\ UNCHANGED <<candles, pattern_history, min_candles_required, results,
                   strategy>>

GetTradeDirection(s, pattern_type) ==
    /\ ret = NoCall
    /\ ret' = [op |-> "get_trade_direction", pattern_type |-> pattern_type,
               result |-> get_trade_direction(pattern_type)]
    /\ UNCHANGED <<candles, pattern_history, min_candles_required, results,
                   strategy>>

GetOptimalTradeAmount(s, balance, win_rate, risk_percentage) ==
    /\ ret = NoCall
    /\ ret' = [op |-> "get_optimal_trade_amount", balance |-> balance,
               win_rate |-> win_rate, risk_percentage |-> risk_percentage,
               result |-> get_optimal_trade_amount(balance, win_rate,
                                                   risk_percentage)]
    /\ UNCHANGED <<candles, pattern_history, min_candles_required, results,
                   strategy>>

\* the trade list kept on the engine (self.results) across calls
RunBacktestKeepingTrades(e, lookback_period) ==
    /\ ret = NoCall
    /\ LET w == Walk(TailSlice(candles, lookback_period), 5,
                     [InitialWalk EXCEPT !.trades = results[e]])
       IN  /\ ret' = [op |-> "run_backtest", engine |-> e,
                      lookback_period |-> lookback_period,
                      result |-> IF Len(candles) < lookback_period
                                 THEN ZeroResult ELSE Statistics(w)]
           /\ results' = [results EXCEPT ![e] =
                             IF Len(candles) < lookback_period THEN @
                             ELSE w.trades]
    /\ UNCHANGED <<candles, pattern_history, min_candles_required, strategy>>

RunBacktest(e, lookback_period) ==
    /\ ret = NoCall
    /\ ret' = [op |-> "run_backtest", engine |-> e,
               lookback_period |-> lookback_period,
               result |-> run_backtest(candles, lookback_period)]
    /\ UNCHANGED <<candles, pattern_history, min_candles_required, results,
                   strategy>>

BacktestWithConfidence(e, confidence_threshold) ==
    /\ ret = NoCall
    /\ ret' = [op |-> "backtest_with_confidence",
               confidence_threshold |-> confidence_threshold,
               result |-> backtest_with_confidence(candles, confidence_threshold)]
    /\ UNCHANGED <<candles, pattern_history, min_candles_required, results,
                   strategy>>

AnalyzePatternPerformance(e) ==
    /\ ret = NoCall
    /\ ret' = [op |-> "analyze_pattern_performance",
               result |-> analyze_pattern_performance(candles)]
    /\ UNCHANGED <<candles, pattern_history, min_candles_required, results,
                   strategy>>

OptimizeParameters(e) ==
    /\ ret = NoCall
    /\ ret' = [op |-> "optimize_parameters",
               result |-> optimize_parameters(candles)]
    /\ UNCHANGED <<candles, pattern_history, min_candles_required, results,
                   strategy>>

\* the caller passes the result of run_backtest it holds to the report
GenerateBacktestReport(e) ==
    /\ ret.op = "run_backtest"
    /\ LET report == generate_backtest_report(ret.result)
       IN  ret' = IF report.outcome = "KeyError"
                  THEN [op |-> "generate_backtest_report",
                        results |-> ret.result,
                        error |-> "KeyError", key |-> report.key]
                  ELSE [op |-> "generate_backtest_report",
                        results |-> ret.result, result |-> report]
    /\ UNCHANGED <<candles, pattern_history, min_candles_required, results,
                   strategy>>

\* run_backtest starting its loop one index early
BeginWalkFromFour(e, lookback_period) ==
    /\ ret = NoCall /\ walk = Idle
    /\ IF Len(candles) < lookback_period
       THEN /\ ret' = [op |-> "run_backtest", engine |-> e,
                       lookback_period |-> lookback_period,
                       result |-> ZeroResult]
            /\ UNCHANGED walk
       ELSE /\ walk' = [pc |-> "loop", engine |-> e,
                        lookback_period |-> lookback_period,
                        i |-> 4, w |-> InitialWalk]
            /\ UNCHANGED ret
    /\ UNCHANGED <<candles, pattern_history, min_candles_required, results,
                   strategy>>

\* run_backtest up to the start of its loop; a series shorter than the
\* lookback returns the zeroed result at once
BeginWalk(e, lookback_period) ==
    /\ ret = NoCall /\ walk = Idle
    /\ IF Len(candles) < lookback_period
       THEN /\ ret' = [op |-> "run_backtest", engine |-> e,
                       lookback_period |-> lookback_period,
                       result |-> ZeroResult]
            /\ UNCHANGED walk
       ELSE /\ walk' = [pc |-> "loop", engine |-> e,
                        lookback_period |-> lookback_period,
                        i |-> 5, w |-> InitialWalk]
            /\ UNCHANGED ret
    /\ UNCHANGED <<candles, pattern_history, min_candles_required, results,
                   strategy>>

\* one iteration of the loop of run_backtest
WalkIteration ==
    /\ walk # Idle
    /\ walk.i < Len(TailSlice(candles, walk.lookback_period))
    /\ walk' = [walk EXCEPT
                   !.i = @ + 1,
                   !.w = WalkStep(TailSlice(candles, walk.lookback_period),
                                  walk.i, walk.w)]
    /\ UNCHANGED <<ret, candles, pattern_history, min_candles_required,
                   results, strategy>>

\* the statistics after the loop, and the return
FinishWalk ==
    /\ walk # Idle
    /\ walk.i >= Len(TailSlice(candles, walk.lookback_period))
    /\ ret' = [op |-> "run_backtest", engine |-> walk.engine,
               lookback_period |-> walk.lookback_period,
               result |-> Statistics(walk.w)]
    /\ walk' = Idle
    /\ UNCHANGED <<candles, pattern_history, min_candles_required, results,
                   strategy>>

\* the caller is done with the value returned by its last call
Release ==
    /\ ret # NoCall
    /\ ret' = NoCall
    /\ UNCHANGED <<candles, pattern_history, min_candles_required, results,
                   strategy>>

\* the last result of run_backtest returned before the current call
Remember == prev' = IF ret.op = "run_backtest" THEN ret ELSE prev

\* What a run that made the cycle c leaves: candles are the candles the
\* run fetched, and ret remembers the run and the flags it started from.
\* The broker executes at most MaxOrders orders.
Outcome(event, ss, c) ==
    /\ \E status \in IF Len(ss.trades_history) < MaxOrders THEN BOOLEAN
                      ELSE {FALSE} :
          session_state' =
              IF status
              THEN [ss EXCEPT !.trades_history = @ \o c.trade_record]
              ELSE ss
    /\ candles' = c.fetched
    /\ ret' = [op |-> "main", event |-> event,
               was_connected |-> session_state.connected,
               was_active |-> session_state.trading_active,
               polled |-> c.polled, orders |-> c.orders]

\* a run of the script from the session state ss its sidebar left
Run(event, ss) ==
    \E history \in AppHistories, amount \in TradeAmounts,
       expiry_time \in ExpiryTimes :
        Outcome(event, ss, Cycle(ss, history, amount, expiry_time))

\* the Conectar button; after a success the script is run again
Connect ==
    /\ ~session_state.connected
    /\ \E success \in BOOLEAN :
          Run("connect",
              IF success
              THEN [session_state EXCEPT !.quotex_client = ConnectedClient,
                                         !.connected = TRUE]
              ELSE session_state)

\* a disconnect that leaves the bot switched on
DisconnectKeepingBot ==
    /\ session_state.connected
    /\ Run("disconnect",
           [session_state EXCEPT !.connected = FALSE,
                                 !.quotex_client = NoClient])

\* the Desconectar button and the run that follows
Disconnect ==
    /\ session_state.connected
    /\ Run("disconnect",
           [session_state EXCEPT !.connected = FALSE,
                                 !.quotex_client = NoClient,
                                 !.trading_active = FALSE])

\* the Iniciar Bot button and the run that follows
StartBot ==
    /\ session_state.connected
    /\ ~session_state.trading_active
    /\ Run("start", [session_state EXCEPT !.trading_active = TRUE])

\* the Parar Bot button and the run that follows
StopBot ==
    /\ session_state.connected
    /\ session_state.trading_active
    /\ Run("stop", [session_state EXCEPT !.trading_active = FALSE])

\* a run of the script without a button: the refresh a second after a
\* run with the bot active, or any other widget
Refresh == Run("refresh", session_state)

(* --------------------------- specifications ---------------------------- *)

\* the backtest operations on a series of palette candles
Next ==
    /\ \/ \E l \in Lookbacks : RunBacktest(1, l)
       \/ \E t \in Thresholds : BacktestWithConfidence(1, t)
       \/ \E p \in PatternTypes : GetTradeDirection(1, p)
       \/ AnalyzePatternPerformance(1)
       \/ OptimizeParameters(1)
       \/ GenerateBacktestReport(1)
       \/ Release
    /\ UNCHANGED <<prev, walk, session_state>>

Spec == Init /\ [][Next]_vars

\* the pattern detector and the confidence scorer on a window
NextStrategy ==
    /\ \/ DetectPattern(1)
       \/ CalculateConfidence(1)
       \/ Release
    /\ UNCHANGED <<prev, walk, session_state>>

SpecStrategy == InitStrategy /\ [][NextStrategy]_vars

\* the position sizer
NextSizer ==
    /\ \/ \E b \in Balances, w \in WinRates, r \in RiskPercentages :
             GetOptimalTradeAmount(1, b, w, r)
       \/ Release
    /\ UNCHANGED <<prev, walk, session_state>>

SpecSizer == InitSizer /\ [][NextSizer]_vars

\* the detector, the scorer and the backtest on series that may hold
\* malformed candles
NextMalformed ==
    /\ \/ DetectPattern(1)
       \/ CalculateConfidence(1)
       \/ \E l \in NearLookbacks(candles) : RunBacktest(1, l)
       \/ GenerateBacktestReport(1)
       \/ Release
    /\ UNCHANGED <<prev, walk, session_state>>

SpecMalformed == InitMalformed /\ [][NextMalformed]_vars

\* every operation of the two classes, on trending series
NextCore ==
    /\ \/ \E s \in Instances : DetectPattern(s)
       \/ \E s \in Instances, w \in BacktestWinRates :
             ShouldTrade(s, w, default_min_win_rate)
       \/ \E s \in Instances : AnalyzeMarketCondition(s)
       \/ \E b \in Balances, w \in WinRates, r \in RiskPercentages :
             GetOptimalTradeAmount(1, b, w, r)
       \/ \E e \in Instances, l \in NearLookbacks(candles) : RunBacktest(e, l)
       \/ \E e \in Instances : AnalyzePatternPerformance(e)
       \/ \E e \in Instances : OptimizeParameters(e)
       \/ \E e \in Instances : GenerateBacktestReport(e)
       \/ Release
    /\ UNCHANGED <<prev, walk, session_state>>

SpecCore == InitCore /\ [][NextCore]_vars

\* backtests of series that reverse after every run
NextSwing ==
    /\ \/ \E l \in NearLookbacks(candles) : RunBacktest(1, l)
       \/ \E t \in Thresholds : BacktestWithConfidence(1, t)
       \/ AnalyzePatternPerformance(1)
       \/ GenerateBacktestReport(1)
       \/ Release
    /\ UNCHANGED <<prev, walk, session_state>>

SpecSwing == InitSwing /\ [][NextSwing]_vars

\* run_backtest step by step, and the reduced simulation
NextWalk ==
    /\ \/ \E l \in NearLookbacks(candles) : BeginWalk(1, l)
       \/ WalkIteration
       \/ FinishWalk
       \/ walk = Idle /\ BacktestWithConfidence(1, min_confidence)
                      /\ UNCHANGED walk
       \/ Release /\ UNCHANGED walk
    /\ UNCHANGED <<prev, session_state>>

SpecWalk == InitWalk /\ [][NextWalk]_vars

\* repeated backtests of one series on two engines
NextRepeat ==
    /\ \/ \E e \in Instances, l \in NearLookbacks(candles) : RunBacktest(e, l)
       \/ \E e \in Instances : BacktestWithConfidence(e, min_confidence)
       \/ Release
    /\ Remember
    /\ UNCHANGED <<walk, session_state>>

SpecRepeat == InitRepeat /\ [][NextRepeat]_vars

\* the events of an app session
NextApp ==
    /\ \/ Connect
       \/ Disconnect
       \/ StartBot
       \/ StopBot
       \/ Refresh
    /\ UNCHANGED <<prev, walk, pattern_history, min_candles_required,
                   results, strategy>>

SpecApp == InitApp /\ [][NextApp]_vars

(* ------------------------------- claims -------------------------------- *)

\* the call ended in an error instead of returning a value
Raised(r) == "error" \in DOMAIN r

AllGreen(cs) == \A k \in 1..Len(cs) : cs[k].close > cs[k].open
AllRed(cs) == \A k \in 1..Len(cs) : cs[k].close < cs[k].open

\* C1: on a window of exactly 5 candles detect_pattern reports a pattern
\* exactly when the five candles are all green or all red; the kind is
\* 5_green for five greens and 5_red for five reds; without a pattern the
\* kind is none and the confidence is 0.
C1_DetectIffUniformColor ==
    (ret.op = "detect_pattern" /\ Len(candles) = 5) =>
        /\ ret.result.detected <=> (AllGreen(candles) \/ AllRed(candles))
        /\ AllGreen(candles) => ret.result.pattern_type = "5_green"
        /\ AllRed(candles) => ret.result.pattern_type = "5_red"
        /\ ~ret.result.detected =>
              (ret.result.pattern_type = "None" /\ ret.result.confidence = 0)

\* a five-red window detected as 5_red with a confidence below 100
C1_Witness ==
    /\ ret.op = "detect_pattern" /\ Len(candles) = 5
    /\ AllRed(candles)
    /\ ret.result.detected /\ ret.result.pattern_type = "5_red"
    /\ ret.result.confidence > 0 /\ ret.result.confidence < 1000

\* C2: every trade record of run_backtest has direction put exactly when
\* its pattern is 5_green and call exactly when its pattern is 5_red, and
\* get_trade_direction maps 5_green to put and 5_red to call.
C2_DirectionReversesPattern ==
    /\ ret.op = "run_backtest" =>
          \A k \in 1..Len(ret.result.details) :
             LET t == ret.result.details[k]
             IN  /\ t.pattern \in {"5_green", "5_red"}
                 /\ t.direction = "put" <=> t.pattern = "5_green"
                 /\ t.direction = "call" <=> t.pattern = "5_red"
    /\ (ret.op = "get_trade_direction" /\ ret.pattern_type = "5_green") =>
          ret.result = "put"
    /\ (ret.op = "get_trade_direction" /\ ret.pattern_type = "5_red") =>
          ret.result = "call"

\* a backtest that recorded a call trade on a 5_red pattern
C2_Witness ==
    /\ ret.op = "run_backtest"
    /\ \E k \in 1..Len(ret.result.details) :
          /\ ret.result.details[k].pattern = "5_red"
          /\ ret.result.details[k].direction = "call"

AllFlat(cs) == \A k \in 1..Len(cs) : cs[k].high = cs[k].low

\* C3: the confidence of every non-empty window is within [0, 100], and
\* it is 50 when every candle of the window has high = low.
C3_ConfidenceInRange ==
    (ret.op = "calculate_confidence" /\ Len(candles) > 0) =>
        /\ ret.result >= 0
        /\ ret.result <= 1000
        /\ AllFlat(candles) => ret.result = 500

\* a boosted window that reaches the cap of 100
C3_Witness ==
    /\ ret.op = "calculate_confidence" /\ Len(candles) > 0
    /\ RLess(RInt(70), average_confidence(candles))
    /\ ret.result = 1000

\* C4: with fewer candles than the lookback run_backtest returns the
\* zeroed result: no trades and win rate, drawdown, Sharpe ratio and
\* profit all 0.
C4_ShortSeriesZeroResult ==
    (ret.op = "run_backtest" /\ Len(candles) < ret.lookback_period) =>
        /\ ret.result.total_trades = 0
        /\ ret.result.winning_trades = 0
        /\ ret.result.losing_trades = 0
        /\ ret.result.win_rate = 0
        /\ ret.result.max_drawdown = 0
        /\ ret.result.sharpe_ratio = 0
        /\ ret.result.profit_loss = 0

\* a series one candle short of the lookback whose own walk would trade
C4_Witness ==
    /\ ret.op = "run_backtest"
    /\ Len(candles) = ret.lookback_period - 1
    /\ Len(Walk(candles, 5, InitialWalk).trades) > 0
    /\ ret.result.total_trades = 0

\* C5: every result of run_backtest has winning_trades + losing_trades =
\* total_trades, a win rate within [0, 100] and a maximum drawdown within
\* [0, 100].
C5_ResultInvariant ==
    ret.op = "run_backtest" =>
        /\ ret.result.winning_trades + ret.result.losing_trades
              = ret.result.total_trades
        /\ ret.result.win_rate >= 0 /\ ret.result.win_rate <= 10000
        /\ ret.result.max_drawdown >= 0 /\ ret.result.max_drawdown <= 10000

\* a backtest with a win, a loss and a drawdown
C5_Witness ==
    /\ ret.op = "run_backtest"
    /\ ret.result.winning_trades > 0
    /\ ret.result.losing_trades > 0
    /\ ret.result.max_drawdown > 0

C7_NoStakeWithoutBalanceOrEdge ==
    (/\ ret.op = "get_optimal_trade_amount"
     /\ (RLeq(ret.balance, RInt(0)) \/ RLeq(ret.win_rate, RInt(0)))) =>
        ret.result = RInt(0)

\* a positive balance with a win rate of 0 sized at 0
C7_Witness ==
    /\ ret.op = "get_optimal_trade_amount"
    /\ RLess(RInt(0), ret.balance)
    /\ ret.win_rate = RInt(0)
    /\ RLess(RInt(0), ret.risk_percentage)
    /\ ret.result = RInt(0)

\* C8: for balance > 0 and win_rate > 0 the stake never exceeds the
\* balance and is at least 1.0 whenever the balance is at least 1.0.
C8_StakeBetweenMinimumAndBalance ==
    (/\ ret.op = "get_optimal_trade_amount"
     /\ RLess(RInt(0), ret.balance) /\ RLess(RInt(0), ret.win_rate)) =>
        /\ RLeq(ret.result, ret.balance)
        /\ RLeq(RInt(1), ret.balance) => RLeq(RInt(1), ret.result)

\* a losing edge (Kelly fraction below 0) still sized at the minimum 1.0
C8_Witness ==
    /\ ret.op = "get_optimal_trade_amount"
    /\ RLess(RInt(1), ret.balance)
    /\ RLess(RInt(0), ret.win_rate) /\ RLess(ret.win_rate, RInt(50))
    /\ ret.result = RInt(1)

C10_StricterGateAdmitsFewer ==
    ret.op = "backtest_with_confidence" =>
        \A t \in Thresholds :
           t <= ret.confidence_threshold =>
              LET looser == backtest_with_confidence(candles, t)
              IN  /\ ret.result.total_trades <= looser.total_trades
                  /\ ret.result.winning_trades <= looser.winning_trades

\* a gate of 70 that keeps a trade and drops one the gate of 50 admits
C10_Witness ==
    /\ ret.op = "backtest_with_confidence"
    /\ ret.confidence_threshold = 700
    /\ ret.result.total_trades > 0
    /\ ret.result.total_trades
          < backtest_with_confidence(candles, 500).total_trades

ParamKeys == {"confidence_threshold", "expected_win_rate", "total_trades"}

\* the win rate of the reduced simulation at the k-th candidate threshold
CandidateWinRate(cs, k) ==
    backtest_with_confidence(cs, confidence_thresholds[k]).win_rate

\* C11: optimize_parameters returns the candidate threshold among 50, 60,
\* 70 and 80 whose reduced simulation has the highest win rate, the lowest
\* such candidate on ties, together with that win rate and trade count.
C11_OptimizerReturnsLowestBest ==
    ret.op = "optimize_parameters" =>
        \E k \in 1..Len(confidence_thresholds) :
            /\ \A j \in 1..Len(confidence_thresholds) :
                   /\ CandidateWinRate(candles, j) <= CandidateWinRate(candles, k)
                   /\ j < k => CandidateWinRate(candles, j)
                                  < CandidateWinRate(candles, k)
            /\ DOMAIN ret.result = ParamKeys
            /\ ret.result.confidence_threshold = confidence_thresholds[k]
            /\ ret.result.expected_win_rate = CandidateWinRate(candles, k)
            /\ ret.result.total_trades =
                   backtest_with_confidence(candles,
                       confidence_thresholds[k]).total_trades

\* C12: for every series, also one too short to trade and one where every
\* candidate has win rate 0, optimize_parameters returns a result that
\* carries a best threshold, an expected win rate and a trade count.
C12_OptimizerResultComplete ==
    ret.op = "optimize_parameters" =>
        /\ ParamKeys \subseteq DOMAIN ret.result
        /\ \E k \in 1..Len(confidence_thresholds) :
               ret.result.confidence_threshold = confidence_thresholds[k]

\* whenever some candidate wins a trade the optimizer returns the lowest
\* best candidate; otherwise it returns the empty parameters
OptimizerLowestBestWhenWinning ==
    ret.op = "optimize_parameters" =>
        IF \A k \in 1..Len(confidence_thresholds) :
              CandidateWinRate(candles, k) = 0
        THEN DOMAIN ret.result = {}
        ELSE C11_OptimizerReturnsLowestBest

\* a later candidate strictly better than the first is returned
OptimizerPicksLater ==
    /\ ret.op = "optimize_parameters"
    /\ DOMAIN ret.result = ParamKeys
    /\ ret.result.confidence_threshold > confidence_thresholds[1]

\* the stated outcome rule for a trade in the given direction at index i
RuleWin(cs, i, direction) ==
    \/ direction = "call" /\ At(cs, i + 1).close > At(cs, i).close
    \/ direction = "put" /\ At(cs, i + 1).close < At(cs, i).close

\* the signal on the five candles ending at index i
SignalAt(cs, i) == detect_pattern(SubSeq(cs, i - 3, i + 1))

\* the indices followed by a candle whose signal passes the threshold
SignalIndices(cs, threshold) ==
    {i \in 5..(Len(cs) - 2) :
        SignalAt(cs, i).detected /\ SignalAt(cs, i).confidence >= threshold}

\* the signal indices of the given pattern that win by the stated rule
RuleWins(cs, threshold, pattern) ==
    {i \in SignalIndices(cs, threshold) :
        /\ SignalAt(cs, i).pattern_type = pattern
        /\ RuleWin(cs, i, get_trade_direction(pattern))}

\* the index of the candle with the given timestamp
IndexOf(cs, timestamp) ==
    CHOOSE i \in 0..(Len(cs) - 1) : At(cs, i).timestamp = timestamp

\* C13: a trade taken at index i is a win exactly when it is a call and
\* the next close is above the close at i, or a put and the next close is
\* below it; equal closes are a loss.  run_backtest,
\* analyze_pattern_performance and the reduced simulation all use this rule.
C13_WinRule ==
    /\ (ret.op = "run_backtest" /\ Len(candles) >= ret.lookback_period) =>
          LET test_candles == TailSlice(candles, ret.lookback_period)
              details == ret.result.details
          IN  \A k \in 1..Len(details) :
                  LET i == IndexOf(test_candles, details[k].timestamp)
                  IN  /\ details[k].win <=>
                             RuleWin(test_candles, i, details[k].direction)
                      /\ details[k].exit_price = details[k].entry_price
                             => ~details[k].win
    /\ ret.op = "backtest_with_confidence" =>
          ret.result.winning_trades =
              Cardinality(RuleWins(candles, ret.confidence_threshold, "5_green"))
              + Cardinality(RuleWins(candles, ret.confidence_threshold, "5_red"))
    /\ ret.op = "analyze_pattern_performance" =>
          \A p \in {"5_green", "5_red"} :
              /\ ret.result[p].wins =
                     Cardinality(RuleWins(candles, min_confidence, p))
              /\ ret.result[p].losses =
                     ret.result[p].total - ret.result[p].wins

\* a trade whose next close equals its entry close is recorded as a loss
C13_Witness ==
    /\ ret.op = "run_backtest"
    /\ "details" \in DOMAIN ret.result
    /\ \E k \in 1..Len(ret.result.details) :
           /\ ret.result.details[k].exit_price = ret.result.details[k].entry_price
           /\ ~ret.result.details[k].win
    /\ \E k \in 1..Len(ret.result.details) : ret.result.details[k].win

\* the number of wins among the first k trade records
WinsUpTo(details, k) == Cardinality({j \in 1..k : details[j].win})

\* C14: a win adds 40 to the balance and a loss takes 50 from it; after
\* every prefix of the trades the balance is 10000 + 40 * wins - 50 *
\* losses; each record's balance is the previous record's balance plus
\* its own profit or loss; the reported profit_loss is the final balance
\* minus 10000.
C14_BalanceAccounting ==
    (ret.op = "run_backtest" /\ Len(candles) >= ret.lookback_period) =>
        LET details == ret.result.details
            before(k) == IF k = 1 THEN RInt(10000) ELSE details[k - 1].balance
        IN  /\ Len(details) = ret.result.total_trades
            /\ \A k \in 1..Len(details) :
                   /\ details[k].profit_loss =
                          IF details[k].win THEN RInt(40) ELSE RInt(-50)
                   /\ details[k].balance =
                          RInt(10000 + 40 * WinsUpTo(details, k)
                                     - 50 * (k - WinsUpTo(details, k)))
                   /\ details[k].balance =
                          RAdd(before(k), details[k].profit_loss)
            /\ ret.result.final_balance =
                   100 * (10000 + 40 * ret.result.winning_trades
                                - 50 * ret.result.losing_trades)
            /\ ret.result.profit_loss = ret.result.final_balance - 1000000

\* a loss followed by a win: the balance goes 9950, then 9990
C14_Witness ==
    /\ ret.op = "run_backtest"
    /\ "details" \in DOMAIN ret.result
    /\ Len(ret.result.details) >= 2
    /\ ~ret.result.details[1].win /\ ret.result.details[2].win
    /\ ret.result.details[2].balance = RInt(9990)
    /\ ret.result.profit_loss = -1000

\* the last n candles of a series, for any n up to its length
Trailing(cs, n) ==
    IF n <= 0 THEN <<>> ELSE SubSeq(cs, Len(cs) - n + 1, Len(cs))

\* the timestamps of the indices 5..lookback-2 of the trailing window
\* whose signal has confidence at least 60
SignalStamps(cs, lookback_period) ==
    LET window == Trailing(cs, lookback_period)
    IN  {At(window, i).timestamp :
            i \in {j \in 5..(lookback_period - 2) :
                       /\ SignalAt(window, j).detected
                       /\ SignalAt(window, j).confidence >= 600}}

\* the trades recorded are exactly those of the signal indices
TradesAtSignals(r, cs, lookback_period) ==
    /\ r.total_trades = Cardinality(SignalStamps(cs, lookback_period))
    /\ Len(r.details) = r.total_trades
    /\ {r.details[k].timestamp : k \in 1..Len(r.details)}
           = SignalStamps(cs, lookback_period)

\* C15: for a series at least as long as the lookback, run_backtest
\* records exactly one trade for each index i of the trailing window with
\* 5 <= i <= lookback - 2 whose five-candle pattern is detected with
\* confidence at least 60, and none for any other index; the last index
\* never trades.
C15_OneTradePerSignalIndex ==
    (ret.op = "run_backtest" /\ Len(candles) >= ret.lookback_period) =>
        TradesAtSignals(ret.result, candles, ret.lookback_period)

\* for a lookback of at least 1 the trades are those of the signal indices
OneTradePerSignalIndexFromOne ==
    (ret.op = "run_backtest" /\ Len(candles) >= ret.lookback_period
        /\ ret.lookback_period >= 1) =>
        TradesAtSignals(ret.result, candles, ret.lookback_period)

\* C16: for every lookback >= 0 and every series at least that long, the
\* result of run_backtest equals the result of running it on just the last
\* lookback candles; earlier candles never affect it.
C16_OnlyTrailingWindow ==
    (ret.op = "run_backtest" /\ ret.lookback_period >= 0
        /\ Len(candles) >= ret.lookback_period) =>
        ret.result = run_backtest(Trailing(candles, ret.lookback_period),
                                  ret.lookback_period)

\* for a lookback of at least 1 only the trailing window matters
OnlyTrailingWindowFromOne ==
    (ret.op = "run_backtest" /\ ret.lookback_period >= 1
        /\ Len(candles) >= ret.lookback_period) =>
        ret.result = run_backtest(Trailing(candles, ret.lookback_period),
                                  ret.lookback_period)

\* a candle with its high below its low or with a negative volume
MalformedCandle(candle) ==
    \/ candle.high < candle.low
    \/ "volume" \in DOMAIN candle /\ candle.volume < 0

Malformed(cs) == \E k \in 1..Len(cs) : MalformedCandle(cs[k])

\* C17: when a candle of the input is malformed (high below low, or a
\* negative volume), detect_pattern, the confidence scorer and
\* run_backtest end in an error that reaches the caller and return no
\* pattern result, score or backtest result.
C17_MalformedCandleRaises ==
    (/\ ret.op \in {"detect_pattern", "calculate_confidence", "run_backtest"}
     /\ Malformed(candles)) => Raised(ret)

\* C19: generate_backtest_report returns a report text for every result
\* of run_backtest, the zeroed insufficient-data result included; it
\* never fails.
C19_ReportForEveryResult ==
    ret.op = "generate_backtest_report" =>
        ~Raised(ret) /\ ret.result.outcome = "report"

\* the report of a result of a walk is produced and gives the approval
ReportForWalkResults ==
    (ret.op = "generate_backtest_report"
        /\ "final_balance" \in DOMAIN ret.results) =>
        /\ ~Raised(ret)
        /\ ret.result.approved <=> ret.results.win_rate >= 6000

\* C18: insufficient data is a degenerate result, never an error:
\* detect_pattern on fewer than 5 candles returns no pattern, kind none
\* and confidence 0; analyze_market_condition on fewer than 20 candles
\* returns an unknown trend with strength 0; neither raises, for any
\* length from 0 upward.
C18_InsufficientDataIsDegenerate ==
    /\ (ret.op = "detect_pattern" /\ Len(candles) < 5) =>
          /\ ~Raised(ret)
          /\ ~ret.result.detected
          /\ ret.result.pattern_type = "None"
          /\ ret.result.confidence = 0
    /\ (ret.op = "analyze_market_condition" /\ Len(candles) < 20) =>
          /\ ~Raised(ret)
          /\ ret.result.trend = "unknown"
          /\ ret.result.strength = 0

\* 19 rising candles are still too few for the market analysis
C18_Witness ==
    /\ ret.op = "analyze_market_condition"
    /\ Len(candles) = 19 /\ AllGreen(candles)
    /\ ret.result.trend = "unknown" /\ ret.result.strength = 0

\* with 20 candles or more the market analysis gives a trend
MarketTrendKnown ==
    /\ ret.op = "analyze_market_condition"
    /\ Len(candles) >= 20
    /\ ret.result.trend = "bullish" /\ ret.result.strength > 0

\* C20: no operation of TradingStrategy or BacktestEngine changes an
\* instance field (pattern_history, min_candles_required, results,
\* strategy) or the candle list it is given, so after any sequence of
\* calls the state is the same as after construction.
C20_NoCrossCallState ==
    [][/\ pattern_history' = pattern_history
       /\ min_candles_required' = min_candles_required
       /\ results' = results
       /\ strategy' = strategy
       /\ candles' = candles]_vars

\* the fields are those of construction whatever was called
FieldsAsConstructed ==
    /\ pattern_history = [s \in Instances |-> <<>>]
    /\ min_candles_required = [s \in Instances |-> 6]
    /\ results = [e \in Instances |-> <<>>]
    /\ strategy = [e \in Instances |-> e]

\* a report made from a backtest with trades, the fields still as built
C20_Witness ==
    /\ ret.op = "generate_backtest_report"
    /\ ret.results.total_trades > 0
    /\ FieldsAsConstructed

\* the trade records of the walk behind the returned result
WalkTrades == Walk(TailSlice(candles, ret.lookback_period), 5, InitialWalk).trades

\* C21: the details of a run_backtest result are exactly the last
\* min(10, total_trades) trade records of the walk, in walk order, so
\* they are never more than 10 and are empty exactly when total_trades
\* is 0.
C21_DetailsAreLastTen ==
    (ret.op = "run_backtest" /\ Len(candles) >= ret.lookback_period) =>
        LET details == ret.result.details
            n == IF ret.result.total_trades < 10 THEN ret.result.total_trades
                 ELSE 10
        IN  /\ ret.result.total_trades = Len(WalkTrades)
            /\ Len(details) = n
            /\ Len(details) <= 10
            /\ \A k \in 1..n : details[k] = WalkTrades[Len(WalkTrades) - n + k]
            /\ \A k \in 1..(n - 1) :
                   details[k].timestamp < details[k + 1].timestamp
            /\ details = <<>> <=> ret.result.total_trades = 0

\* more than ten trades: the ten kept start after the first trades
C21_Witness ==
    /\ ret.op = "run_backtest"
    /\ "details" \in DOMAIN ret.result
    /\ ret.result.total_trades > 10
    /\ Len(ret.result.details) = 10
    /\ ret.result.details[1].timestamp > WalkTrades[1].timestamp

\* the trades of the result all have the same outcome, or there are none
UniformOutcome(r) ==
    \/ r.total_trades = 0
    \/ r.winning_trades = r.total_trades
    \/ r.losing_trades = r.total_trades

\* C22: the Sharpe ratio of a run_backtest result is 0 whenever there are
\* no trades or every trade has the same outcome, all wins or all losses.
C22_SharpeZeroWithoutDeviation ==
    (ret.op = "run_backtest" /\ UniformOutcome(ret.result)) =>
        ret.result.sharpe_ratio = 0

\* without wins, or with wins whose mean is exact, the Sharpe ratio of
\* uniform outcomes is 0
SharpeZeroWhenMeanExact ==
    (ret.op = "run_backtest" /\ UniformOutcome(ret.result)
        /\ (ret.result.winning_trades = 0
               \/ MeanWinError(ret.result.winning_trades) = 0)) =>
        ret.result.sharpe_ratio = 0

\* the balances reached so far in the walk, from the starting balance on
Reached(w) ==
    <<RInt(initial_balance)>> \o [k \in 1..Len(w.trades) |-> w.trades[k].balance]

\* the peak is the largest balance reached, the starting one included
PeakIsMaximum(w) ==
    /\ \E k \in 1..Len(Reached(w)) : Reached(w)[k] = w.peak_balance
    /\ \A k \in 1..Len(Reached(w)) : RLeq(Reached(w)[k], w.peak_balance)
    /\ RLeq(w.balance, w.peak_balance)
    /\ RLeq(RInt(initial_balance), w.peak_balance)

\* the fall from an earlier balance b to a later balance c, as a fraction
Fall(b, c) == RDiv(RSub(b, c), b)

\* The peak at a step is the largest balance up to it, so the drawdown
\* (peak - balance) / peak at that step is the largest fall to its balance
\* from any earlier balance; only earlier balances of at least the
\* starting balance can be the peak.
DrawdownIsMaximum(w) ==
    LET b == Reached(w)
        pairs == {p \in (1..Len(b)) \X (1..Len(b)) :
                     p[1] <= p[2] /\ RLeq(RInt(initial_balance), b[p[1]])}
    IN  /\ \A p \in pairs : RLeq(Fall(b[p[1]], b[p[2]]), w.max_drawdown)
        /\ \E p \in pairs : Fall(b[p[1]], b[p[2]]) = w.max_drawdown

\* C23: at every step of the backtest walk peak_balance is the maximum of
\* the initial balance and all balances reached so far, max_drawdown is
\* the maximum so far of (peak_balance - balance) / peak_balance, and
\* neither of them ever decreases.
C23_PeakAndDrawdownAreRunningMaxima ==
    /\ [](walk # Idle =>
            PeakIsMaximum(walk.w) /\ DrawdownIsMaximum(walk.w))
    /\ [][(walk # Idle /\ walk' # Idle) =>
            /\ RLeq(walk.w.peak_balance, walk'.w.peak_balance)
            /\ RLeq(walk.w.max_drawdown, walk'.w.max_drawdown)]_vars

\* after a win and a loss the peak is above the balance and the start
C23_Witness ==
    /\ walk # Idle
    /\ RLess(RInt(initial_balance), walk.w.peak_balance)
    /\ RLess(walk.w.balance, walk.w.peak_balance)
    /\ RLess(RInt(0), walk.w.max_drawdown)
    /\ Len(walk.w.trades) >= 3

\* the signal at index i of the window of the walk passes the gate
QualifiesAt(i) ==
    LET test_candles == TailSlice(candles, walk.lookback_period)
    IN  /\ i >= 5 /\ i < Len(test_candles)
        /\ SignalAt(test_candles, i).detected
        /\ SignalAt(test_candles, i).confidence >= 600

\* C27: in every state of the backtest walk the balance is not negative:
\* a trade is simulated only when the balance is at least the stake 50, so
\* a qualifying signal met with a balance below 50 is skipped and leaves
\* balance, peak, drawdown and the trade list unchanged.
C27_BalanceNeverNegative ==
    /\ [](walk # Idle => RLeq(RInt(0), walk.w.balance))
    /\ [][(walk # Idle /\ walk' # Idle) =>
            /\ walk'.w.trades # walk.w.trades =>
                   RLeq(RInt(50), walk.w.balance)
            /\ (QualifiesAt(walk.i) /\ RLess(walk.w.balance, RInt(50))) =>
                   walk'.w = walk.w]_vars

\* the 201st signal of a losing series has just been passed with nothing
\* left to stake
C27_Witness ==
    /\ walk # Idle
    /\ QualifiesAt(walk.i - 1)
    /\ walk.i - 1 < Len(TailSlice(candles, walk.lookback_period)) - 1
    /\ walk.w.balance = RInt(0)
    /\ Len(walk.w.trades) = 200

\* the reduced simulation at threshold 60 counts what the result reports
SameCountsAsReduced(r) ==
    LET reduced == backtest_with_confidence(candles, min_confidence)
    IN  /\ r.total_trades = reduced.total_trades
        /\ r.winning_trades = reduced.winning_trades

C25_PatternPerformanceConsistent ==
    ret.op = "analyze_pattern_performance" =>
        LET reduced == backtest_with_confidence(candles, min_confidence)
        IN  /\ DOMAIN ret.result = {"5_green", "5_red"}
            /\ \A p \in DOMAIN ret.result :
                   /\ ret.result[p].wins + ret.result[p].losses
                          = ret.result[p].total
                   /\ ret.result[p].win_rate >= 0
                   /\ ret.result[p].win_rate <= 10000
                   /\ ret.result[p].total = 0 => ret.result[p].win_rate = 0
            /\ ret.result["5_green"].total + ret.result["5_red"].total
                   = reduced.total_trades
            /\ ret.result["5_green"].wins + ret.result["5_red"].wins
                   = reduced.winning_trades

\* both kinds traded, with a win and a loss among the green signals
C25_Witness ==
    /\ ret.op = "analyze_pattern_performance"
    /\ ret.result["5_green"].wins >= 1 /\ ret.result["5_green"].losses >= 1
    /\ ret.result["5_red"].total >= 1
    /\ ret.result["5_green"].win_rate > 0
    /\ ret.result["5_green"].win_rate < 10000

\* min(|last - base| / base * 100, 100) rounded to 1 decimal, in tenths
StrengthAgainst(last, base) ==
    LET change == RMul(Rat(Abs(last - base), base), RInt(100))
    IN  Round1(IF RLess(RInt(100), change) THEN RInt(100) ELSE change)

StrengthCapped ==
    /\ ret.op = "analyze_market_condition"
    /\ Len(candles) >= 20
    /\ candles[Len(candles)].close > 2 * candles[Len(candles) - 19].close
    /\ ret.result.strength = 1000

\* C28: for every series and every lookback >= 1 with at least that many
\* candles, run_backtest reports total_trades <= max(0, lookback - 6); a
\* trailing window of fewer than 7 candles never yields a trade.
C28_TradesBoundedByWindow ==
    (ret.op = "run_backtest" /\ ret.lookback_period >= 1
        /\ Len(candles) >= ret.lookback_period) =>
        /\ ret.result.total_trades <=
               (IF ret.lookback_period > 6 THEN ret.lookback_period - 6 ELSE 0)
        /\ ret.lookback_period < 7 => ret.result.total_trades = 0

\* every index from 5 to lookback - 2 traded
C28_Witness ==
    /\ ret.op = "run_backtest"
    /\ ret.lookback_period >= 8
    /\ Len(candles) >= ret.lookback_period
    /\ ret.result.total_trades = ret.lookback_period - 6

\* the run placed an order
OrderPlaced == ret.op = "main" /\ ret.orders # <<>>

\* C29: over any sequence of connect, start, stop, disconnect and refresh
\* events the order executor is called only in a cycle in which the client
\* is connected, the bot is active, a pattern is detected on the newest
\* candles with confidence >= 60 and the backtest over the last 100 candles
\* has a win rate >= 60; no order is placed when fewer than 100 candles
\* were fetched.
C29_OrdersOnlyWhenShouldTrade ==
    OrderPlaced =>
        /\ session_state.connected
        /\ session_state.quotex_client = ConnectedClient
        /\ session_state.trading_active
        /\ should_trade(TailSlice(candles, 6),
                        run_backtest(TailSlice(candles, 100), 100).win_rate,
                        default_min_win_rate)
        /\ Len(candles) >= 100

\* what the page does require of an order: a pattern of any confidence
OrdersOnlyWhenBacktestApproves ==
    OrderPlaced =>
        /\ session_state.connected
        /\ session_state.trading_active
        /\ detect_pattern(TailSlice(candles, 6)).detected
        /\ run_backtest(TailSlice(candles, 100), 100).win_rate >= 6000
        /\ Len(candles) = 100

\* an order on a pattern of confidence below 60
OrderOnWeakPattern ==
    OrderPlaced /\ detect_pattern(TailSlice(candles, 6)).confidence < 600

\* an order on a pattern of confidence 60 or more
OrderOnStrongPattern ==
    OrderPlaced /\ detect_pattern(TailSlice(candles, 6)).confidence >= 600

\* a pattern on fewer than 100 candles in a cycle of the active bot
PatternOnShortFetch ==
    /\ ret.op = "main" /\ ret.polled
    /\ Len(candles) < 100
    /\ detect_pattern(TailSlice(candles, 6)).detected

\* C30: in every state of the app session trading_active implies
\* connected; the bot is started only while connected, and a disconnect
\* clears trading_active and the stored client with the connected flag.
C30_ActiveImpliesConnected ==
    /\ session_state.trading_active => session_state.connected
    /\ (ret.op = "main" /\ ret.event = "start") => ret.was_connected
    /\ (ret.op = "main" /\ ret.event = "disconnect") =>
           /\ ~session_state.connected
           /\ ~session_state.trading_active
           /\ session_state.quotex_client = NoClient

\* a disconnect while the bot was active
C30_Witness ==
    /\ ret.op = "main" /\ ret.event = "disconnect"
    /\ ret.was_active
    /\ ~session_state.trading_active
    /\ ~session_state.connected

====
